---- MODULE Spec2Model ----
(***************************************************************************)
(* Model of ADA_Project/backend/static/js/app.js: the browser client that  *)
(* uploads a dataset, shows its metadata, asks questions about it and      *)
(* renders the answer, the chart and the preview.                          *)
(*                                                                         *)
(* One action per event handler run.  An async handler (handleUpload,      *)
(* askQuestion) is two actions: the synchronous part up to its fetch, and  *)
(* the continuation that runs when the round trip is over.  The two awaits *)
(* of one invocation (fetch, then resp.json()) are taken as one round      *)
(* trip: the code writes nothing between them, so no other handler can     *)
(* observe the difference.  Invocations suspended at their round trip are  *)
(* kept in the bag `pending` and resume in any order.                      *)
(*                                                                         *)
(* Strings of the page are TLA+ strings or tuples of their parts           *)
(* (<<"Error: ", msg>> is "Error: " + msg); the question text is a         *)
(* sequence of characters, so that trim() is computed.  The responses      *)
(* follow the endpoints' contracts: a 2xx upload response carries a        *)
(* non-empty dataset_id and a meta object.  All the elements the script    *)
(* looks up are taken to be on the page.  The drag highlight               *)
(* (dropzone.style.borderColor, app.js:30-37 and 41) is styling that no    *)
(* handler reads; it is left out.                                          *)
(***************************************************************************)
EXTENDS Integers, Sequences, FiniteSets, Bags, TLC

VARIABLES
    DATASET_ID,       \* app.js:2, NULL or a dataset id
    dropText,         \* dropzone.querySelector("p").innerText
    metaPanelHidden,  \* metaPanel.hidden
    metaSummary,      \* metaSummary.innerHTML
    columnsGrid,      \* the cards of columnsGrid
    qaPanelHidden,    \* qaPanel.hidden
    answerText,       \* answerDiv.innerText
    previewText,      \* previewDiv.innerText
    chartData,        \* chartDiv.data, NULL until Plotly.newPlot has drawn
    pending,          \* invocations suspended at their network round trip
    ran,              \* history: the part of handleUpload, askQuestion or
                      \* of a download listener that the last step ran, ""
                      \* when it ran none
    effects,          \* what the last handler run did to the outside:
                      \* alerts, fetches, console.error, renderMeta, newPlot,
                      \* navigation, toImage, file save
    lastUpload,       \* history: the upload response that resolved last
    lastAsk,          \* history: the ask response that resolved last
    uploaded          \* history: the body of the successful upload response
                      \* that resolved last, NoUpload before the first one

vars == <<DATASET_ID, dropText, metaPanelHidden, metaSummary,
          columnsGrid, qaPanelHidden, answerText, previewText, chartData,
          pending, ran, effects, lastUpload, lastAsk, uploaded>>

display == <<DATASET_ID, dropText, metaPanelHidden, metaSummary, columnsGrid,
             qaPanelHidden, answerText, previewText, chartData>>

-----------------------------------------------------------------------------
(* Bounds *)

\* How many invocations may be suspended at their round trip at once.
MaxInFlight == 2

-----------------------------------------------------------------------------
(* Values *)

NULL == "null"

\* !x for a value that is null or a string
Falsy(x) == x = NULL \/ x = ""

\* fileInput.files / e.dataTransfer.files: a list of files
FileLists == {<<>>, <<"sales.csv">>}

\* questionInput.value, as characters
QuestionValues == {<<>>, <<" ">>, <<"q">>, <<" ", "q", " ">>}

IsSpace(c) == c = " "

RECURSIVE TrimStart(_)
TrimStart(s) ==
    IF s # <<>> /\ IsSpace(Head(s)) THEN TrimStart(Tail(s)) ELSE s

RECURSIVE TrimEnd(_)
TrimEnd(s) ==
    IF s # <<>> /\ IsSpace(s[Len(s)])
    THEN TrimEnd(SubSeq(s, 1, Len(s) - 1))
    ELSE s

\* String.prototype.trim
Trim(s) == TrimEnd(TrimStart(s))

\* DatasetMeta objects the backend may return.  has_summary / has_types say
\* whether meta.summary / meta.logical_types are there.
MetaA ==
    [rows |-> 10, cols |-> 3, columns |-> <<"a", "b", "c">>,
     has_types |-> TRUE, logical_types |-> [a |-> "numeric"],
     has_summary |-> FALSE, quick_trend |-> ""]

MetaB ==
    [rows |-> 2, cols |-> 1, columns |-> <<"x">>,
     has_types |-> FALSE, logical_types |-> [x |-> ""],
     has_summary |-> TRUE, quick_trend |-> "up"]

\* The bodies of the upload endpoint: {dataset_id, meta} on 2xx, {error}
\* (possibly without a message) otherwise.
UploadOk == {[dataset_id |-> "d1", meta |-> MetaA, error |-> NULL],
             [dataset_id |-> "d2", meta |-> MetaB, error |-> NULL]}

UploadErr == {[dataset_id |-> NULL, meta |-> NULL, error |-> e] :
                e \in {NULL, "bad file"}}

\* agg_preview: is_array is Array.isArray(agg_preview), items its elements
\* (a string has a length too, and is no array).
NoPreview == [is_array |-> FALSE, items |-> <<>>]
Rows(items) == [is_array |-> TRUE, items |-> items]

\* The bodies of the ask endpoint: {answer, figure?, agg_preview?} on 2xx,
\* {error} (possibly without a message) otherwise.
AskOk ==
    {[answer |-> "42 rows", figure |-> "fig1", agg_preview |-> Rows(<<"r", "r">>),
      error |-> NULL],
     [answer |-> "42 rows", figure |-> NULL, agg_preview |-> NoPreview,
      error |-> NULL],
     [answer |-> "7 rows", figure |-> NULL, agg_preview |-> Rows(<<"r">>),
      error |-> NULL],
     [answer |-> "", figure |-> NULL, agg_preview |-> Rows(<<>>),
      error |-> NULL],
     [answer |-> "", figure |-> "fig1",
      agg_preview |-> [is_array |-> FALSE, items |-> <<"r">>], error |-> NULL]}

AskErr == {[answer |-> NULL, figure |-> NULL, agg_preview |-> NoPreview,
            error |-> e] : e \in {NULL, "no such column"}}

\* How a round trip ends: fetch rejects ("network"), resp.json() rejects
\* ("parse", resp.ok is then never read), or the body is parsed, with
\* resp.ok.
Outcomes(okBodies, errBodies) ==
    {[kind |-> "network", ok |-> FALSE, data |-> NULL],
     [kind |-> "parse", ok |-> FALSE, data |-> NULL]}
    \cup {[kind |-> "json", ok |-> TRUE, data |-> d] : d \in okBodies}
    \cup {[kind |-> "json", ok |-> FALSE, data |-> d] : d \in errBodies}

UploadOutcomes == Outcomes(UploadOk, UploadErr)
AskOutcomes == Outcomes(AskOk, AskErr)

\* lastUpload and lastAsk before any response: an outcome, and whether the
\* invocation it resumed was the newest of its handler.
\* No upload has succeeded yet
NoUpload == [dataset_id |-> NULL, meta |-> NULL, error |-> NULL]

NoOutcome == [kind |-> "none", ok |-> FALSE, data |-> NULL, newest |-> TRUE]

Resolved(inv, out) ==
    [kind |-> out.kind, ok |-> out.ok, data |-> out.data, newest |-> inv.newest]

\* The hidden attribute of metaPanel and qaPanel in the markup of the page,
\* which the script only ever sets to false: the panels are revealed by the
\* first upload that succeeds.
HiddenAtLoad == TRUE

\* The text of the page before the script has written to it.
InitialDropText == <<"Drop a file here or click to choose one">>
EmptyText == <<>>

-----------------------------------------------------------------------------
(* Initial state: DATASET_ID = null, nothing rendered, nothing in flight *)

Init ==
    /\ DATASET_ID = NULL
    /\ dropText = InitialDropText
    /\ metaPanelHidden = HiddenAtLoad
    /\ metaSummary = EmptyText
    /\ columnsGrid = <<>>
    /\ qaPanelHidden = HiddenAtLoad
    /\ answerText = EmptyText
    /\ previewText = EmptyText
    /\ chartData = NULL
    /\ pending = EmptyBag
    /\ ran = ""
    /\ effects = <<>>
    /\ lastUpload = NoOutcome
    /\ lastAsk = NoOutcome
    /\ uploaded = NoUpload

-----------------------------------------------------------------------------
(* Suspended invocations *)

\* An invocation suspended at its fetch.  The fields but fn are history:
\* id_at_submit is DATASET_ID when handleUpload was called, chart_at_submit
\* is chartDiv.data when askQuestion was called, and newest says that the
\* handler has not been called again since.
Invocation(fn) ==
    [fn |-> fn,
     id_at_submit |-> IF fn = "handleUpload" THEN DATASET_ID ELSE NULL,
     chart_at_submit |-> IF fn = "askQuestion" THEN chartData ELSE NULL,
     newest |-> TRUE]

\* The suspended invocations once fn is called again: the earlier
\* invocations of fn are no longer the newest.
Suspend(fn) ==
    LET Older(r) == IF r.fn = fn THEN [r EXCEPT !.newest = FALSE] ELSE r
        olds == {Older(r) : r \in BagToSet(pending)}
        aged == [r \in olds |->
                    IF r.fn = fn
                    THEN CopiesIn(r, pending)
                         + CopiesIn([r EXCEPT !.newest = TRUE], pending)
                    ELSE CopiesIn(r, pending)]
    IN  aged (+) SetToBag({Invocation(fn)})

Remove(inv) == pending (-) SetToBag({inv})

Suspended(fn) == {r \in BagToSet(pending) : r.fn = fn}

-----------------------------------------------------------------------------
(* File upload, app.js:55-85 *)

UploadingText == <<"Uploading...">>
UploadCompleteText == <<"Upload complete! Ask a question below.">>
ErrorText(msg) == <<"Error: ", msg>>

\* e.message of what fetch and resp.json() reject with
NetworkErrorMessage == "Failed to fetch"
ParseErrorMessage == "Unexpected token < in JSON at position 0"

\* renderMeta(meta), app.js:91-114
QuickTrend(meta) ==
    IF meta.has_summary /\ ~Falsy(meta.quick_trend)
    THEN meta.quick_trend
    ELSE "--"   \* the em dash of app.js:99

TypeLabel(meta, c) ==
    IF ~meta.has_types THEN ""
    ELSE IF c \in DOMAIN meta.logical_types THEN meta.logical_types[c]
    ELSE "undefined"

SummaryHtml(meta) ==
    <<"Rows:", meta.rows, "Columns:", meta.cols, "Quick trend:", QuickTrend(meta)>>

Cards(meta) ==
    [i \in 1..Len(meta.columns) |->
        [name |-> meta.columns[i], type |-> TypeLabel(meta, meta.columns[i])]]


\* Mutant of renderMeta: columnsGrid.innerHTML = "" is forgotten, the cards
\* of the new meta are appended to the old ones.
renderMeta_KeepsOldCards(meta) ==
    /\ metaPanelHidden' = FALSE
    /\ metaSummary' = SummaryHtml(meta)
    /\ columnsGrid' = columnsGrid \o Cards(meta)

renderMeta(meta) ==
    /\ metaPanelHidden' = FALSE
    /\ metaSummary' = SummaryHtml(meta)
    /\ columnsGrid' = Cards(meta)


\* Mutant of handleUpload: the session is reset when an upload starts.
handleUpload_ResetsDataset(files) ==
    IF files = <<>>
    THEN /\ effects' = <<>>
         /\ UNCHANGED <<display, pending, lastUpload, lastAsk, uploaded>>
    ELSE /\ BagCardinality(pending) < MaxInFlight
         /\ DATASET_ID' = NULL
         /\ dropText' = UploadingText
         /\ pending' = Suspend("handleUpload")
         /\ effects' = <<[kind |-> "fetch", url |-> "/api/upload",
                          body |-> [file |-> files[1]]]>>
         /\ UNCHANGED <<metaPanelHidden, metaSummary, columnsGrid,
                        qaPanelHidden, answerText, previewText, chartData,
                        lastUpload, lastAsk, uploaded>>

\* Mutant of handleUpload: "Uploading..." is written before the file is
\* looked at.
handleUpload_StatusBeforeCheck(files) ==
    /\ dropText' = UploadingText
    /\ IF files = <<>>
       THEN /\ effects' = <<>>
            /\ UNCHANGED pending
       ELSE /\ BagCardinality(pending) < MaxInFlight
            /\ pending' = Suspend("handleUpload")
            /\ effects' = <<[kind |-> "fetch", url |-> "/api/upload",
                             body |-> [file |-> files[1]]]>>
    /\ UNCHANGED <<DATASET_ID, metaPanelHidden, metaSummary, columnsGrid,
                   qaPanelHidden, answerText, previewText, chartData,
                   lastUpload, lastAsk, uploaded>>

\* handleUpload up to its fetch (app.js:56-68): returns when no file is
\* chosen, else writes "Uploading..." and sends the file.
handleUpload(files) ==
    IF files = <<>>
    THEN /\ effects' = <<>>
         /\ UNCHANGED <<display, pending, lastUpload, lastAsk, uploaded>>
    ELSE /\ BagCardinality(pending) < MaxInFlight
         /\ dropText' = UploadingText
         /\ pending' = Suspend("handleUpload")
         /\ effects' = <<[kind |-> "fetch", url |-> "/api/upload",
                          body |-> [file |-> files[1]]]>>
         /\ UNCHANGED <<DATASET_ID, metaPanelHidden, metaSummary, columnsGrid,
                        qaPanelHidden, answerText, previewText, chartData,
                        lastUpload, lastAsk, uploaded>>


\* Mutant of uploadCatch: a failed upload forgets the dataset.
uploadCatch_ClearsDataset(message) ==
    /\ DATASET_ID' = NULL
    /\ dropText' = ErrorText(message)
    /\ effects' = <<[kind |-> "console.error", message |-> message]>>
    /\ UNCHANGED <<metaPanelHidden, metaSummary, columnsGrid, qaPanelHidden,
                   answerText, previewText, chartData>>

\* Mutant of uploadCatch: the failed upload is sent again.
uploadCatch_Resends(message) ==
    /\ dropText' = ErrorText(message)
    /\ effects' = <<[kind |-> "console.error", message |-> message],
                    [kind |-> "fetch", url |-> "/api/upload", body |-> "sales.csv"]>>
    /\ UNCHANGED <<DATASET_ID, metaPanelHidden, metaSummary, columnsGrid,
                   qaPanelHidden, answerText, previewText, chartData>>

\* The catch block, app.js:81-84
uploadCatch(message) ==
    /\ dropText' = ErrorText(message)
    /\ effects' = <<[kind |-> "console.error", message |-> message]>>
    /\ UNCHANGED <<DATASET_ID, metaPanelHidden, metaSummary, columnsGrid,
                   qaPanelHidden, answerText, previewText, chartData>>

\* Mutant of uploadSuccess: the metadata is rendered for the first dataset
\* only, later uploads replace the id under the metadata on display.
uploadSuccess_RendersOnce(data) ==
    /\ DATASET_ID' = data.dataset_id
    /\ IF metaPanelHidden
       THEN renderMeta(data.meta)
       ELSE UNCHANGED <<metaPanelHidden, metaSummary, columnsGrid>>
    /\ dropText' = UploadCompleteText
    /\ qaPanelHidden' = FALSE
    /\ effects' = <<[kind |-> "renderMeta", meta |-> data.meta]>>
    /\ UNCHANGED <<answerText, previewText, chartData>>

\* Mutant of uploadSuccess: the question panel is not revealed.
uploadSuccess_PanelStaysHidden(data) ==
    /\ DATASET_ID' = data.dataset_id
    /\ renderMeta(data.meta)
    /\ dropText' = UploadCompleteText
    /\ UNCHANGED qaPanelHidden
    /\ effects' = <<[kind |-> "renderMeta", meta |-> data.meta]>>
    /\ UNCHANGED <<answerText, previewText, chartData>>

\* The try block after a body was parsed with resp.ok, app.js:75-80
uploadSuccess(data) ==
    /\ DATASET_ID' = data.dataset_id
    /\ renderMeta(data.meta)
    /\ dropText' = UploadCompleteText
    /\ qaPanelHidden' = FALSE
    /\ effects' = <<[kind |-> "renderMeta", meta |-> data.meta]>>
    /\ UNCHANGED <<answerText, previewText, chartData>>

\* handleUpload from its fetch on (app.js:64-84)
handleUploadResume(out) ==
    IF out.kind = "network" THEN uploadCatch(NetworkErrorMessage)
    ELSE IF out.kind = "parse" THEN uploadCatch(ParseErrorMessage)
    ELSE IF ~out.ok
    THEN uploadCatch(IF Falsy(out.data.error) THEN "Upload failed"
                     ELSE out.data.error)
    ELSE uploadSuccess(out.data)

-----------------------------------------------------------------------------
(* Ask a question, app.js:130-176 *)

ThinkingText == <<"Thinking...">>
NoDatasetNotice == "Upload a dataset first."


\* Mutant of askQuestion: the check of DATASET_ID is missing.
askQuestion_NoDatasetCheck(value) ==
    LET q == Trim(value) IN
    IF q = <<>>
    THEN /\ effects' = <<>>
         /\ UNCHANGED <<display, pending, lastUpload, lastAsk, uploaded>>
    ELSE /\ BagCardinality(pending) < MaxInFlight
         /\ answerText' = ThinkingText
         /\ previewText' = EmptyText
         /\ pending' = Suspend("askQuestion")
         /\ effects' = <<[kind |-> "fetch", url |-> "/api/ask",
                          body |-> [dataset_id |-> DATASET_ID, question |-> q]]>>
         /\ UNCHANGED <<DATASET_ID, dropText, metaPanelHidden, metaSummary,
                        columnsGrid, qaPanelHidden, chartData, lastUpload,
                        lastAsk, uploaded>>

\* Mutant of askQuestion: DATASET_ID is checked before the question text.
askQuestion_ChecksDatasetFirst(value) ==
    LET q == Trim(value) IN
    IF Falsy(DATASET_ID)
    THEN /\ effects' = <<[kind |-> "alert", text |-> NoDatasetNotice]>>
         /\ UNCHANGED <<display, pending, lastUpload, lastAsk, uploaded>>
    ELSE IF q = <<>>
    THEN /\ effects' = <<>>
         /\ UNCHANGED <<display, pending, lastUpload, lastAsk, uploaded>>
    ELSE /\ BagCardinality(pending) < MaxInFlight
         /\ answerText' = ThinkingText
         /\ previewText' = EmptyText
         /\ pending' = Suspend("askQuestion")
         /\ effects' = <<[kind |-> "fetch", url |-> "/api/ask",
                          body |-> [dataset_id |-> DATASET_ID, question |-> q]]>>
         /\ UNCHANGED <<DATASET_ID, dropText, metaPanelHidden, metaSummary,
                        columnsGrid, qaPanelHidden, chartData, lastUpload,
                        lastAsk, uploaded>>

\* Mutant of askQuestion: the text of the box is sent as it was typed.
askQuestion_SendsUntrimmed(value) ==
    LET q == Trim(value) IN
    IF q = <<>>
    THEN /\ effects' = <<>>
         /\ UNCHANGED <<display, pending, lastUpload, lastAsk, uploaded>>
    ELSE IF Falsy(DATASET_ID)
    THEN /\ effects' = <<[kind |-> "alert", text |-> NoDatasetNotice]>>
         /\ UNCHANGED <<display, pending, lastUpload, lastAsk, uploaded>>
    ELSE /\ BagCardinality(pending) < MaxInFlight
         /\ answerText' = ThinkingText
         /\ previewText' = EmptyText
         /\ pending' = Suspend("askQuestion")
         /\ effects' = <<[kind |-> "fetch", url |-> "/api/ask",
                          body |-> [dataset_id |-> DATASET_ID, question |-> value]]>>
         /\ UNCHANGED <<DATASET_ID, dropText, metaPanelHidden, metaSummary,
                        columnsGrid, qaPanelHidden, chartData, lastUpload,
                        lastAsk, uploaded>>

\* askQuestion up to its fetch (app.js:131-152)
askQuestion(value) ==
    LET q == Trim(value) IN
    IF q = <<>>
    THEN /\ effects' = <<>>
         /\ UNCHANGED <<display, pending, lastUpload, lastAsk, uploaded>>
    ELSE IF Falsy(DATASET_ID)
    THEN /\ effects' = <<[kind |-> "alert", text |-> NoDatasetNotice]>>
         /\ UNCHANGED <<display, pending, lastUpload, lastAsk, uploaded>>
    ELSE /\ BagCardinality(pending) < MaxInFlight
         /\ answerText' = ThinkingText
         /\ previewText' = EmptyText
         /\ pending' = Suspend("askQuestion")
         /\ effects' = <<[kind |-> "fetch", url |-> "/api/ask",
                          body |-> [dataset_id |-> DATASET_ID, question |-> q]]>>
         /\ UNCHANGED <<DATASET_ID, dropText, metaPanelHidden, metaSummary,
                        columnsGrid, qaPanelHidden, chartData, lastUpload,
                        lastAsk, uploaded>>


\* Mutant of askCatch: a failed question forgets the dataset.
askCatch_ClearsDataset(message) ==
    /\ DATASET_ID' = NULL
    /\ answerText' = ErrorText(message)
    /\ effects' = <<[kind |-> "console.error", message |-> message]>>
    /\ UNCHANGED <<dropText, metaPanelHidden, metaSummary, columnsGrid,
                   qaPanelHidden, previewText, chartData>>

\* Mutant of askCatch: a failed question purges the chart.
askCatch_PurgesChart(message) ==
    /\ answerText' = ErrorText(message)
    /\ chartData' = NULL
    /\ effects' = <<[kind |-> "console.error", message |-> message]>>
    /\ UNCHANGED <<DATASET_ID, dropText, metaPanelHidden, metaSummary,
                   columnsGrid, qaPanelHidden, previewText>>

\* Mutant of askCatch: the error is logged only, the answer area is left
\* as it is.
askCatch_LogsOnly(message) ==
    /\ effects' = <<[kind |-> "console.error", message |-> message]>>
    /\ UNCHANGED <<DATASET_ID, dropText, metaPanelHidden, metaSummary,
                   columnsGrid, qaPanelHidden, answerText, previewText,
                   chartData>>

\* The catch block, app.js:172-175
askCatch(message) ==
    /\ answerText' = ErrorText(message)
    /\ effects' = <<[kind |-> "console.error", message |-> message]>>
    /\ UNCHANGED <<DATASET_ID, dropText, metaPanelHidden, metaSummary,
                   columnsGrid, qaPanelHidden, previewText, chartData>>

PreviewRowsText(n) == <<"Preview rows: ", n>>

askSuccess_KeepsOldPreview(data) ==
    /\ answerText' = <<IF Falsy(data.answer) THEN "(No insight returned)"
                       ELSE data.answer>>
    /\ IF ~Falsy(data.figure)
       THEN /\ chartData' = data.figure
            /\ effects' = <<[kind |-> "Plotly.newPlot", figure |-> data.figure]>>
       ELSE /\ effects' = <<>>
            /\ UNCHANGED chartData
    /\ previewText' =
          IF data.agg_preview.is_array /\ Len(data.agg_preview.items) > 0
          THEN PreviewRowsText(Len(data.agg_preview.items))
          ELSE previewText
    /\ UNCHANGED <<DATASET_ID, dropText, metaPanelHidden, metaSummary,
                   columnsGrid, qaPanelHidden>>

\* The try block after a body was parsed with resp.ok, app.js:159-171
askSuccess(data) ==
    /\ answerText' = <<IF Falsy(data.answer) THEN "(No insight returned)"
                       ELSE data.answer>>
    /\ IF ~Falsy(data.figure)
       THEN /\ chartData' = data.figure
            /\ effects' = <<[kind |-> "Plotly.newPlot", figure |-> data.figure]>>
       ELSE /\ effects' = <<>>
            /\ UNCHANGED chartData
    /\ previewText' =
          IF data.agg_preview.is_array /\ Len(data.agg_preview.items) > 0
          THEN PreviewRowsText(Len(data.agg_preview.items))
          ELSE EmptyText
    /\ UNCHANGED <<DATASET_ID, dropText, metaPanelHidden, metaSummary,
                   columnsGrid, qaPanelHidden>>

\* askQuestion from its fetch on (app.js:142-175)
askQuestionResume(out) ==
    IF out.kind = "network" THEN askCatch(NetworkErrorMessage)
    ELSE IF out.kind = "parse" THEN askCatch(ParseErrorMessage)
    ELSE IF ~out.ok
    THEN askCatch(IF Falsy(out.data.error) THEN "Ask failed"
                  ELSE out.data.error)
    ELSE askSuccess(out.data)

-----------------------------------------------------------------------------
(* Events *)

\* startBtn or dropzone clicked: fileInput.click() (app.js:22, 27)
OpenFileDialog ==
    /\ ran' = ""
    /\ effects' = <<[kind |-> "fileInput.click"]>>
    /\ UNCHANGED <<display, pending, lastUpload, lastAsk, uploaded>>

\* app.js:39-46: the dropped files become fileInput.files
Drop(files) ==
    IF Len(files) > 0
       THEN /\ ran' = "handleUpload"
            /\ handleUpload(files)
       ELSE /\ ran' = ""
            /\ effects' = <<>>
            /\ UNCHANGED <<display, pending, lastUpload, lastAsk, uploaded>>

\* app.js:48: the change event of fileInput, whatever it now holds
FileInputChange(files) ==
    /\ ran' = "handleUpload"
    /\ handleUpload(files)


\* Mutant of UploadSettled: requests are sequenced, the response to an
\* upload that is no longer the newest is dropped.
UploadSettled_DropsStale(inv, out) ==
    /\ inv.fn = "handleUpload"
    /\ ran' = "handleUpload:resume"
    /\ pending' = Remove(inv)
    /\ lastUpload' = Resolved(inv, out)
    /\ uploaded' = IF out.kind = "json" /\ out.ok THEN out.data ELSE uploaded
    /\ IF inv.newest
       THEN handleUploadResume(out)
       ELSE /\ effects' = <<>>
            /\ UNCHANGED display
    /\ UNCHANGED lastAsk

\* The round trip of a suspended handleUpload is over
UploadSettled(inv, out) ==
    /\ inv.fn = "handleUpload"
    /\ ran' = "handleUpload:resume"
    /\ pending' = Remove(inv)
    /\ lastUpload' = Resolved(inv, out)
    /\ uploaded' = IF out.kind = "json" /\ out.ok THEN out.data ELSE uploaded
    /\ handleUploadResume(out)
    /\ UNCHANGED lastAsk

\* app.js:121
AskClick(value) ==
    /\ ran' = "askQuestion"
    /\ askQuestion(value)

\* app.js:122-127
QuestionKeydown(key, value) ==
    /\ IF key = "Enter"
       THEN /\ ran' = "askQuestion"
            /\ askQuestion(value)
       ELSE /\ ran' = ""
            /\ effects' = <<>>
            /\ UNCHANGED <<display, pending, lastUpload, lastAsk, uploaded>>

\* The round trip of a suspended askQuestion is over
AskSettled(inv, out) ==
    /\ inv.fn = "askQuestion"
    /\ ran' = "askQuestion:resume"
    /\ pending' = Remove(inv)
    /\ lastAsk' = Resolved(inv, out)
    /\ askQuestionResume(out)
    /\ UNCHANGED <<lastUpload, uploaded>>

-----------------------------------------------------------------------------
(* Download report, app.js:182-190 *)

ReportUrl(id) == <<"/api/report/", id>>

\* Mutant of downloadReport: the check of DATASET_ID is missing.
downloadReport_NoCheck ==
    /\ effects' = <<[kind |-> "navigate", url |-> ReportUrl(DATASET_ID)]>>
    /\ UNCHANGED <<display, pending, lastUpload, lastAsk, uploaded>>

\* The click listener of downloadReportBtn
downloadReport ==
    /\ IF Falsy(DATASET_ID)
       THEN effects' = <<[kind |-> "alert", text |-> NoDatasetNotice]>>
       ELSE effects' = <<[kind |-> "navigate", url |-> ReportUrl(DATASET_ID)]>>
    /\ UNCHANGED <<display, pending, lastUpload, lastAsk, uploaded>>

DownloadReportClick ==
    /\ ran' = "downloadReport"
    /\ downloadReport

-----------------------------------------------------------------------------
(* Download chart as PNG, app.js:196-218 *)

NoChartNotice == "No chart available to download."
PngFailedNotice == "Could not download chart as PNG."

\* How Plotly.toImage ends: with a data URL, or rejected
ImageOutcomes == {"resolved", "rejected"}

\* The click listener of downloadPngBtn up to await Plotly.toImage
\* (app.js:197-207)
downloadPng ==
    IF Falsy(chartData)
    THEN /\ effects' = <<[kind |-> "alert", text |-> NoChartNotice]>>
         /\ UNCHANGED <<display, pending, lastUpload, lastAsk, uploaded>>
    ELSE /\ BagCardinality(pending) < MaxInFlight
         /\ pending' = pending (+) SetToBag({Invocation("downloadPng")})
         /\ effects' = <<[kind |-> "Plotly.toImage", format |-> "png",
                          height |-> 600, width |-> 1000]>>
         /\ UNCHANGED <<display, lastUpload, lastAsk, uploaded>>

\* Mutant of downloadPngResume: the link is built and clicked after the
\* try block, so also when Plotly.toImage was rejected.
downloadPngResume_SavesAnyway(outcome) ==
    /\ IF outcome = "resolved"
       THEN effects' = <<[kind |-> "save", download |-> "chart.png",
                          href |-> "data:image/png"]>>
       ELSE effects' = <<[kind |-> "console.error", message |-> "toImage failed"],
                         [kind |-> "alert", text |-> PngFailedNotice],
                         [kind |-> "save", download |-> "chart.png",
                          href |-> "undefined"]>>
    /\ UNCHANGED display

\* The listener from await Plotly.toImage on (app.js:203-217): the image is
\* saved through a link that is clicked and removed, or the catch block
\* alerts.
downloadPngResume(outcome) ==
    /\ IF outcome = "resolved"
       THEN effects' = <<[kind |-> "save", download |-> "chart.png",
                          href |-> "data:image/png"]>>
       ELSE effects' = <<[kind |-> "console.error", message |-> "toImage failed"],
                         [kind |-> "alert", text |-> PngFailedNotice]>>
    /\ UNCHANGED display

DownloadPngClick ==
    /\ ran' = "downloadPng"
    /\ downloadPng

\* Plotly.toImage of a suspended export is over
ImageSettled(inv, outcome) ==
    /\ inv.fn = "downloadPng"
    /\ ran' = "downloadPng:resume"
    /\ pending' = Remove(inv)
    /\ downloadPngResume(outcome)
    /\ UNCHANGED <<lastUpload, lastAsk, uploaded>>

Keys == {"Enter", "a"}

Next ==
    \/ OpenFileDialog
    \/ \E files \in FileLists : Drop(files)
    \/ \E files \in FileLists : FileInputChange(files)
    \/ \E inv \in BagToSet(pending), out \in UploadOutcomes : UploadSettled(inv, out)
    \/ \E value \in QuestionValues : AskClick(value)
    \/ \E key \in Keys, value \in QuestionValues : QuestionKeydown(key, value)
    \/ \E inv \in BagToSet(pending), out \in AskOutcomes : AskSettled(inv, out)
    \/ DownloadReportClick
    \/ DownloadPngClick
    \/ \E inv \in BagToSet(pending), outcome \in ImageOutcomes : ImageSettled(inv, outcome)

Spec == Init /\ [][Next]_vars

\* The program when every request that was issued gets its end: a pending
\* fetch or Plotly.toImage settles, the browser then runs the rest of the
\* handler that awaits it.
UploadResolves == \E inv \in BagToSet(pending), out \in UploadOutcomes : UploadSettled(inv, out)
AskResolves == \E inv \in BagToSet(pending), out \in AskOutcomes : AskSettled(inv, out)
ImageResolves == \E inv \in BagToSet(pending), outcome \in ImageOutcomes : ImageSettled(inv, outcome)

FairSpec ==
    /\ Spec
    /\ WF_vars(UploadResolves)
    /\ WF_vars(AskResolves)
    /\ WF_vars(ImageResolves)

-----------------------------------------------------------------------------
(* Readings of a step or a state that the properties share *)

\* The response is a failure: a non-2xx status, a network error or a body
\* that does not parse.
Failed(out) == out.kind \in {"network", "parse"} \/ ~out.ok
Succeeded(out) == out.kind = "json" /\ out.ok

IsErrorText(text) == Len(text) = 2 /\ text[1] = "Error: "

Fetches(url) == {k \in 1..Len(effects) : effects[k].kind = "fetch" /\ effects[k].url = url}
Alerts == {k \in 1..Len(effects) : effects[k].kind = "alert"}

\* e.message in the catch block: what fetch or resp.json() rejected with,
\* else the error of the body, else the handler's generic message.
FailureMessage(out, generic) ==
    IF out.kind = "network" THEN NetworkErrorMessage
    ELSE IF out.kind = "parse" THEN ParseErrorMessage
    ELSE IF out.data.error \in {NULL, ""} THEN generic
    ELSE out.data.error

\* What a response leaves in the dropzone and in the answer area.
ExpectedStatus(out) ==
    IF Succeeded(out)
    THEN <<"Upload complete! Ask a question below.">>
    ELSE <<"Error: ", FailureMessage(out, "Upload failed")>>

ExpectedAnswer(out) ==
    IF Succeeded(out)
    THEN <<IF out.data.answer = "" THEN "(No insight returned)"
           ELSE out.data.answer>>
    ELSE <<"Error: ", FailureMessage(out, "Ask failed")>>

\* The metadata panel shows this meta, and nothing else.
ShowsMeta(meta) ==
    /\ ~metaPanelHidden
    /\ metaSummary = <<"Rows:", meta.rows, "Columns:", meta.cols, "Quick trend:",
                       IF meta.has_summary /\ meta.quick_trend # ""
                       THEN meta.quick_trend ELSE "--">>
    /\ Len(columnsGrid) = Len(meta.columns)
    /\ \A k \in 1..Len(columnsGrid) : columnsGrid[k].name = meta.columns[k]

\* The view shows the result of an answered question.
AnswerTexts == {ExpectedAnswer([kind |-> "json", ok |-> TRUE, data |-> d]) : d \in AskOk}
ShowsAnswerResult ==
    answerText \in AnswerTexts \/ chartData # NULL \/ previewText # EmptyText

\* The step calls askQuestion with this text in the question box.
AskSubmitted(value) == AskClick(value) \/ QuestionKeydown("Enter", value)

-----------------------------------------------------------------------------
(* C1 *)

\* C1: a question is sent to /api/ask only from a state where DATASET_ID is
\* set, and with that id; submitting a non-blank question while DATASET_ID
\* is unset shows the notice "Upload a dataset first.", sends nothing and
\* leaves the answer and the preview as they were.
C1_AskNeedsDataset ==
    [][\A value \in QuestionValues :
          AskSubmitted(value) =>
            /\ Fetches("/api/ask")' # {} =>
                 /\ ~Falsy(DATASET_ID)
                 /\ \A k \in Fetches("/api/ask")' :
                       effects'[k].body.dataset_id = DATASET_ID
            /\ (Trim(value) # <<>> /\ Falsy(DATASET_ID)) =>
                 /\ effects' = <<[kind |-> "alert", text |-> "Upload a dataset first."]>>
                 /\ pending' = pending
                 /\ answerText' = answerText
                 /\ previewText' = previewText]_vars

\* A question was submitted with no dataset: the notice is up, nothing is
\* in flight, nothing was written.
C1_Witness ==
    /\ ran = "askQuestion"
    /\ Falsy(DATASET_ID)
    /\ Alerts # {}
    /\ pending = EmptyBag
    /\ answerText = EmptyText

-----------------------------------------------------------------------------
(* C2 *)

\* C2 as stated: when an upload fails, DATASET_ID is afterwards what it was
\* before that upload was submitted, and the dropzone shows an error.
C2_Original ==
    [][\A inv \in BagToSet(pending), out \in UploadOutcomes :
          (UploadSettled(inv, out) /\ Failed(out)) =>
            /\ DATASET_ID' = inv.id_at_submit
            /\ IsErrorText(dropText')]_vars

\* C2 amended: when an upload fails, the failure leaves DATASET_ID as it was
\* when the failure arrived (unset stays unset, an id stays that id), and
\* the dropzone shows "Error: " and the message of the failure.
C2_FailedUploadKeepsDataset ==
    [][\A inv \in BagToSet(pending), out \in UploadOutcomes :
          (UploadSettled(inv, out) /\ Failed(out)) =>
            /\ DATASET_ID' = DATASET_ID
            /\ dropText' = <<"Error: ", FailureMessage(out, "Upload failed")>>]_vars

\* An upload failed while a dataset was loaded: the id is still there, the
\* dropzone shows the error.
C2_Witness ==
    /\ ran = "handleUpload:resume"
    /\ Failed(lastUpload)
    /\ DATASET_ID = "d1"
    /\ IsErrorText(dropText)

-----------------------------------------------------------------------------
(* C3 *)

\* C3: every successful upload sets DATASET_ID to the dataset_id of its
\* response, calls renderMeta once, with the meta of that response, which
\* the metadata panel then shows, and unhides the question panel, all in
\* one step.
C3_UploadSuccessStep ==
    [][\A inv \in BagToSet(pending), out \in UploadOutcomes :
          (UploadSettled(inv, out) /\ Succeeded(out)) =>
            /\ DATASET_ID' = out.data.dataset_id
            /\ Cardinality({k \in 1..Len(effects') :
                              effects'[k].kind = "renderMeta"}) = 1
            /\ \A k \in 1..Len(effects') :
                  effects'[k].kind = "renderMeta" => effects'[k].meta = out.data.meta
            /\ ShowsMeta(out.data.meta)'
            /\ qaPanelHidden' = FALSE]_vars

\* A second upload succeeded: the id, the metadata and the question panel
\* are those of its response.
C3_Witness ==
    /\ ran = "handleUpload:resume"
    /\ Succeeded(lastUpload)
    /\ lastUpload.data.dataset_id = "d2"
    /\ DATASET_ID = "d2"
    /\ ShowsMeta(MetaB)
    /\ ~qaPanelHidden

-----------------------------------------------------------------------------
(* C4 *)

\* C4: right after an upload has succeeded with a new dataset id, the view
\* shows no result of a question asked about the dataset before: no answer,
\* no chart, no preview.
C4_UploadDiscardsAnswer ==
    [][\A inv \in BagToSet(pending), out \in UploadOutcomes :
          (/\ UploadSettled(inv, out)
           /\ Succeeded(out)
           /\ ~Falsy(DATASET_ID)
           /\ out.data.dataset_id # DATASET_ID) => ~ShowsAnswerResult']_vars

-----------------------------------------------------------------------------
(* C5 *)

\* C5: DATASET_ID is unset at the start; it is always unset or an id that
\* an upload response returned; only a successful upload changes it, to the
\* id of its response; once set it is never unset.
C5_DatasetIdLifecycle ==
    /\ DATASET_ID = NULL
    /\ [](DATASET_ID = NULL \/ DATASET_ID \in {d.dataset_id : d \in UploadOk})
    /\ [][/\ ~Falsy(DATASET_ID) => ~Falsy(DATASET_ID')
          /\ DATASET_ID' # DATASET_ID =>
               \E inv \in BagToSet(pending), out \in UploadOutcomes :
                  /\ UploadSettled(inv, out)
                  /\ Succeeded(out)
                  /\ DATASET_ID' = out.data.dataset_id]_vars

\* A dataset is loaded and has outlived a new upload being started.
C5_Witness ==
    /\ DATASET_ID = "d2"
    /\ ran = "handleUpload"
    /\ Suspended("handleUpload") # {}
    /\ dropText = <<"Uploading...">>

-----------------------------------------------------------------------------
(* C6 *)

\* C6: no step of askQuestion (a blank question, a question without
\* dataset, a submission, a success, a failure) changes DATASET_ID, nor
\* anything of the page but the answer, the chart and the preview.
C6_AskLeavesDataset ==
    [][((\E value \in QuestionValues : AskSubmitted(value))
          \/ (\E inv \in BagToSet(pending), out \in AskOutcomes : AskSettled(inv, out)))
         => UNCHANGED <<DATASET_ID, dropText, metaPanelHidden, metaSummary,
                        columnsGrid, qaPanelHidden>>]_vars

\* A question failed with the backend's message: the dataset is still d1.
C6_Witness ==
    /\ ran = "askQuestion:resume"
    /\ lastAsk.kind = "json" /\ ~lastAsk.ok
    /\ answerText = <<"Error: ", "no such column">>
    /\ DATASET_ID = "d1"
    /\ ShowsMeta(MetaA)

-----------------------------------------------------------------------------
(* C7 *)

\* C7 as stated: once all of several overlapping uploads have resolved,
\* the dropzone status, DATASET_ID and the metadata are the ones written by
\* the upload response that resolved last, and once all questions have
\* resolved the answer is the one written by the ask response that
\* resolved last.  (~newest: the request that resolved last was not the
\* one submitted last.)
C7_Original ==
    /\ (Suspended("handleUpload") = {} /\ ~lastUpload.newest) =>
          /\ dropText = ExpectedStatus(lastUpload)
          /\ ~Falsy(DATASET_ID) =>
                /\ Succeeded(lastUpload)
                /\ DATASET_ID = lastUpload.data.dataset_id
                /\ ShowsMeta(lastUpload.data.meta)
    /\ (Suspended("askQuestion") = {} /\ ~lastAsk.newest) =>
          answerText = ExpectedAnswer(lastAsk)

\* C7 amended: once all uploads have resolved the dropzone status is the
\* one written by the upload response that resolved last, and once all
\* questions have resolved the answer is the one written by the ask
\* response that resolved last, whatever the order of submission;
\* DATASET_ID and the metadata are those of the successful upload response
\* that resolved last: a failed upload leaves them alone.
C7_LastResolvedWins ==
    /\ []((Suspended("handleUpload") = {} /\ lastUpload.kind # "none") =>
             dropText = ExpectedStatus(lastUpload))
    /\ []((Suspended("askQuestion") = {} /\ lastAsk.kind # "none") =>
             answerText = ExpectedAnswer(lastAsk))
    /\ [](Succeeded(lastUpload) =>
             /\ DATASET_ID = lastUpload.data.dataset_id
             /\ ShowsMeta(lastUpload.data.meta))
    /\ [][\A inv \in BagToSet(pending), out \in UploadOutcomes :
             (UploadSettled(inv, out) /\ Failed(out)) =>
                UNCHANGED <<DATASET_ID, metaPanelHidden, metaSummary, columnsGrid>>]_vars

\* Two uploads and two questions overlapped and in both pairs the request
\* submitted first resolved last; the view is that of the late responses.
C7_Witness ==
    /\ pending = EmptyBag
    /\ ~lastUpload.newest /\ Succeeded(lastUpload)
    /\ DATASET_ID = lastUpload.data.dataset_id
    /\ ~lastAsk.newest /\ Succeeded(lastAsk)
    /\ answerText = ExpectedAnswer(lastAsk)

-----------------------------------------------------------------------------
(* C8 *)

\* C8 as stated: when a question fails the answer area shows the error and
\* the chart is the one that was displayed before the question was
\* submitted.
C8_Original ==
    [][\A inv \in BagToSet(pending), out \in AskOutcomes :
          (AskSettled(inv, out) /\ Failed(out)) =>
            /\ IsErrorText(answerText')
            /\ chartData' = inv.chart_at_submit]_vars

\* C8 amended: when a question fails the answer area shows "Error: " and
\* the message of the failure, and the failure leaves the chart as it was
\* when the failure arrived.
C8_FailedAskKeepsChart ==
    [][\A inv \in BagToSet(pending), out \in AskOutcomes :
          (AskSettled(inv, out) /\ Failed(out)) =>
            /\ answerText' = <<"Error: ", FailureMessage(out, "Ask failed")>>
            /\ chartData' = chartData]_vars

\* A question failed while a chart was displayed: the chart is still there.
C8_Witness ==
    /\ ran = "askQuestion:resume"
    /\ Failed(lastAsk)
    /\ IsErrorText(answerText)
    /\ chartData = "fig1"

-----------------------------------------------------------------------------
(* C9 *)

\* C9: submitting a question that is empty once trimmed sends nothing,
\* shows no notice (with DATASET_ID unset too) and changes neither the
\* page nor DATASET_ID.
C9_BlankQuestionNoOp ==
    [][\A value \in QuestionValues :
          (AskSubmitted(value) /\ Trim(value) = <<>>) =>
            /\ effects' = <<>>
            /\ UNCHANGED <<display, pending>>]_vars

\* askQuestion ran with no dataset and did nothing at all: the question was
\* blank.
C9_Witness ==
    /\ ran = "askQuestion"
    /\ effects = <<>>
    /\ Falsy(DATASET_ID)
    /\ pending = EmptyBag

-----------------------------------------------------------------------------
(* C10 *)

\* C10: handleUpload with no file selected sends nothing, does not write
\* "Uploading..." and leaves DATASET_ID, the metadata panel and the
\* question panel (and the rest of the page) as they were.
C10_NoFileNoOp ==
    [][FileInputChange(<<>>) =>
          /\ effects' = <<>>
          /\ UNCHANGED <<display, pending>>]_vars

\* handleUpload ran after an upload had completed and did nothing: no file
\* was selected.
C10_Witness ==
    /\ ran = "handleUpload"
    /\ effects = <<>>
    /\ dropText = <<"Upload complete! Ask a question below.">>
    /\ DATASET_ID = "d1"

-----------------------------------------------------------------------------
(* C11 *)

\* C11: when a question succeeds the preview area shows exactly
\* "Preview rows: N" if agg_preview is a sequence of N > 0 rows, and is
\* empty if agg_preview is absent, not a sequence or of length 0; the
\* preview of an earlier question never remains.
C11_PreviewRows ==
    [][\A inv \in BagToSet(pending), out \in AskOutcomes :
          (AskSettled(inv, out) /\ Succeeded(out)) =>
            LET preview == out.data.agg_preview
                N == Len(preview.items)
            IN /\ (preview.is_array /\ N > 0) =>
                     previewText' = <<"Preview rows: ", N>>
               /\ (~preview.is_array \/ N = 0) => previewText' = <<>>]_vars

\* A question was answered with two preview rows, and their number is shown.
C11_Witness ==
    /\ ran = "askQuestion:resume"
    /\ Succeeded(lastAsk)
    /\ lastAsk.data.agg_preview = Rows(<<"r", "r">>)
    /\ previewText = <<"Preview rows: ", 2>>

-----------------------------------------------------------------------------
(* C12 *)

\* C12: a click on the report button with DATASET_ID unset shows the notice
\* and neither navigates nor sends a request; with DATASET_ID set it
\* navigates to /api/report/<id>, where <id> is DATASET_ID at the click,
\* the id of the successful upload that resolved last; the click never
\* changes DATASET_ID.
C12_ReportDownload ==
    [][DownloadReportClick =>
          /\ DATASET_ID' = DATASET_ID
          /\ UNCHANGED <<display, pending>>
          /\ Falsy(DATASET_ID) =>
                effects' = <<[kind |-> "alert", text |-> "Upload a dataset first."]>>
          /\ ~Falsy(DATASET_ID) =>
                /\ effects' = <<[kind |-> "navigate",
                                 url |-> <<"/api/report/", DATASET_ID>>]>>
                /\ DATASET_ID = uploaded.dataset_id]_vars

\* The report of d2 was requested after d2 had replaced an earlier dataset
\* and a later upload had failed.
C12_Witness ==
    /\ ran = "downloadReport"
    /\ effects = <<[kind |-> "navigate", url |-> <<"/api/report/", "d2">>]>>
    /\ DATASET_ID = "d2"
    /\ Failed(lastUpload)

-----------------------------------------------------------------------------
(* C13 *)

Saves == {k \in 1..Len(effects) : effects[k].kind = "save"}
Exports == {k \in 1..Len(effects) : effects[k].kind = "Plotly.toImage"}

\* C13: a click on the PNG button when no chart has been rendered shows the
\* notice, starts no export and saves no file; when a started export fails
\* an alert is shown, no file is saved, and DATASET_ID, the answer, the
\* preview and the chart (and the rest of the page) are unchanged.
C13_ChartExport ==
    [][/\ (DownloadPngClick /\ chartData = NULL) =>
             /\ effects' = <<[kind |-> "alert",
                              text |-> "No chart available to download."]>>
             /\ UNCHANGED <<display, pending>>
       /\ \A inv \in BagToSet(pending) :
             ImageSettled(inv, "rejected") =>
               /\ \E k \in 1..Len(effects') :
                     effects'[k] = [kind |-> "alert",
                                    text |-> "Could not download chart as PNG."]
               /\ \A k \in 1..Len(effects') :
                     effects'[k].kind \notin {"save", "Plotly.toImage", "fetch"}
               /\ UNCHANGED <<DATASET_ID, answerText, previewText, chartData>>
               /\ UNCHANGED display]_vars

\* An export of the displayed chart failed: the alert is up, nothing was
\* saved and the chart is still displayed.
C13_Witness ==
    /\ ran = "downloadPng:resume"
    /\ Alerts # {}
    /\ Saves = {}
    /\ chartData = "fig1"

-----------------------------------------------------------------------------
(* C14 *)

\* What a handler run sent out: a fetch, a navigation, or an export.
RequestsIn(eff) ==
    {k \in 1..Len(eff) : eff[k].kind \in {"fetch", "navigate", "Plotly.toImage"}}

UserActions == {"handleUpload", "askQuestion", "downloadReport", "downloadPng"}

\* The step is the end of a suspended invocation: the rest of a handler ran.
Resumes == {"handleUpload:resume", "askQuestion:resume", "downloadPng:resume"}

\* C14: there are no retries. A step issues at most one request and only
\* when it is a user action; the step that ends a request, failed or not,
\* issues none and retires the invocation, so that nothing is left to
\* write its outcome a second time; a failure is written in that step.
C14_NoRetries ==
    [][/\ Cardinality(RequestsIn(effects')) <= 1
       /\ RequestsIn(effects') # {} => ran' \in UserActions
       /\ BagCardinality(pending') > BagCardinality(pending) =>
             /\ ran' \in UserActions
             /\ BagCardinality(pending') = BagCardinality(pending) + 1
             /\ Cardinality(RequestsIn(effects')) = 1
       /\ ran' \in Resumes =>
             /\ RequestsIn(effects') = {}
             /\ BagCardinality(pending') = BagCardinality(pending) - 1
             /\ \E inv \in BagToSet(pending) :
                   CopiesIn(inv, pending') = CopiesIn(inv, pending) - 1
       /\ (ran' = "handleUpload:resume" /\ Failed(lastUpload')) =>
             dropText' = <<"Error: ", FailureMessage(lastUpload', "Upload failed")>>
       /\ (ran' = "askQuestion:resume" /\ Failed(lastAsk')) =>
             answerText' = <<"Error: ", FailureMessage(lastAsk', "Ask failed")>>]_vars

\* The only upload failed: its error is displayed, nothing is in flight and
\* nothing was sent again.
C14_Witness ==
    /\ ran = "handleUpload:resume"
    /\ Failed(lastUpload)
    /\ IsErrorText(dropText)
    /\ pending = EmptyBag
    /\ RequestsIn(effects) = {}

-----------------------------------------------------------------------------
(* C15 *)

\* C15: when every issued request is resolved in the end (FairSpec), no
\* placeholder stays forever: whenever the answer area shows "Thinking..."
\* it later shows something else, whenever the dropzone shows
\* "Uploading..." it later shows something else; and a placeholder is on
\* display only while a request of its handler has not resolved.
C15_NoPerpetualPlaceholder ==
    /\ [](answerText = <<"Thinking...">> => Suspended("askQuestion") # {})
    /\ [](dropText = <<"Uploading...">> => Suspended("handleUpload") # {})
    /\ (answerText = <<"Thinking...">>) ~> (answerText # <<"Thinking...">>)
    /\ (dropText = <<"Uploading...">>) ~> (dropText # <<"Uploading...">>)

\* A question has just failed and took "Thinking..." away while an upload
\* is still under way.
C15_Witness ==
    /\ ran = "askQuestion:resume"
    /\ Failed(lastAsk)
    /\ answerText = <<"Error: ", "Failed to fetch">>
    /\ dropText = <<"Uploading...">>
    /\ Suspended("askQuestion") = {}

-----------------------------------------------------------------------------
(* C16 *)

\* C16: a successful answer replaces the result displayed before: after it
\* the answer, the chart and the preview all come from that one response,
\* so that a chart on display next to the new answer is the figure of that
\* response.
C16_SuccessReplacesResult ==
    [][\A inv \in BagToSet(pending), out \in AskOutcomes :
          (AskSettled(inv, out) /\ Succeeded(out)) =>
            /\ answerText' = ExpectedAnswer(out)
            /\ chartData' = out.data.figure]_vars

-----------------------------------------------------------------------------
(* C17 *)

NonBlank(value) == \E k \in 1..Len(value) : ~IsSpace(value[k])

\* q is value without the white space at its two ends.
IsTrimOf(q, value) ==
    \E i, j \in 0..Len(value) :
        /\ i + Len(q) + j = Len(value)
        /\ q = SubSeq(value, i + 1, i + Len(q))
        /\ \A k \in 1..i : IsSpace(value[k])
        /\ \A k \in (Len(value) - j + 1)..Len(value) : IsSpace(value[k])
        /\ q # <<>> => ~IsSpace(q[1]) /\ ~IsSpace(q[Len(q)])

\* C17: when a non-blank question is submitted with DATASET_ID set, the
\* step that issues the request also writes "Thinking..." and clears the
\* preview, and it processes no response; the one request of the step
\* carries DATASET_ID and the trimmed question as they are at submission.
C17_ThinkingWithRequest ==
    [][\A value \in QuestionValues :
          (AskSubmitted(value) /\ NonBlank(value) /\ ~Falsy(DATASET_ID)) =>
            /\ answerText' = <<"Thinking...">>
            /\ previewText' = <<>>
            /\ Len(effects') = 1
            /\ effects'[1].kind = "fetch"
            /\ effects'[1].url = "/api/ask"
            /\ effects'[1].body.dataset_id = DATASET_ID
            /\ IsTrimOf(effects'[1].body.question, value)
            /\ BagCardinality(pending') = BagCardinality(pending) + 1
            /\ \E r \in BagToSet(pending') : r.fn = "askQuestion" /\ r.newest
            /\ lastAsk' = lastAsk
            /\ DATASET_ID' = DATASET_ID]_vars

\* A question was submitted over the result of an earlier one: the request
\* for d1 is out, "Thinking..." is shown and the preview is cleared while
\* the earlier chart is still on display.
C17_Witness ==
    /\ ran = "askQuestion"
    /\ Fetches("/api/ask") = {1}
    /\ effects[1].body = [dataset_id |-> "d1", question |-> <<"q">>]
    /\ answerText = <<"Thinking...">>
    /\ previewText = <<>>
    /\ chartData = "fig1"

-----------------------------------------------------------------------------
(* C18 *)

\* C18: in every reachable state, overlapping uploads included, DATASET_ID
\* and the metadata on display come from the same upload response: with
\* DATASET_ID unset no metadata is shown, with DATASET_ID set it is the id
\* of the successful response that resolved last and the panel shows the
\* meta of that response; "Upload complete!" is on display only when the
\* upload that resolved last is that response.
C18_MetaMatchesDataset ==
    /\ DATASET_ID = NULL =>
          /\ uploaded = NoUpload
          /\ metaPanelHidden
          /\ metaSummary = <<>>
          /\ columnsGrid = <<>>
    /\ DATASET_ID # NULL =>
          /\ uploaded \in UploadOk
          /\ DATASET_ID = uploaded.dataset_id
          /\ ShowsMeta(uploaded.meta)
    /\ dropText = <<"Upload complete! Ask a question below.">> =>
          /\ Succeeded(lastUpload)
          /\ lastUpload.data = uploaded
          /\ DATASET_ID = lastUpload.data.dataset_id

\* Two uploads overlapped and the one submitted first resolved last, with
\* d1: the page shows the three columns of d1 and "Upload complete!".
C18_Witness ==
    /\ ran = "handleUpload:resume"
    /\ Succeeded(lastUpload)
    /\ ~lastUpload.newest
    /\ DATASET_ID = "d1"
    /\ Len(columnsGrid) = 3
    /\ dropText = <<"Upload complete! Ask a question below.">>
    /\ Suspended("handleUpload") = {}

-----------------------------------------------------------------------------
(* C19 *)

====
